---- MODULE Spec2Model ----
(***************************************************************************)
(* Model of src/backend.py: an asyncio WebSocket chat relay.               *)
(*                                                                         *)
(* One handler coroutine runs per connection.  asyncio is cooperative:     *)
(* code between two awaits that can suspend is one atomic step.  The       *)
(* suspension points of the program are the send of one history message    *)
(* in register (line 31), the gather of the fan-out sends (line 60) and    *)
(* the wait for the next inbound payload (line 78).  unregister contains   *)
(* no suspension point, so awaiting it does not yield.                     *)
(*                                                                         *)
(* websocket.send writes the frame when it is called, and only then waits  *)
(* for the transport to drain: a client is sent a message at the call of   *)
(* send, and the coroutine may be suspended until send returns.  The sends *)
(* of a gather are called when their tasks first run, after line 60.       *)
(***************************************************************************)
EXTENDS Integers, Sequences, FiniteSets, TLC

\* ---- program constants ----
MAX_HISTORY == 50
\* The default of line 12.
PORT == 8765
\* The number line 106 compares the port with.
PortLimit == 65535

\* ---- bounds of the model ----
NumClients == 2
MaxMsgs == 2
MaxTime == 1
PortSpan == 12

Handles == 1..NumClients

\* ------------------------------------------------------------------------
\* JSON values.  A string is a sequence of characters.
\* ------------------------------------------------------------------------
Str(s) == [t |-> "str", s |-> s]
Num(n) == [t |-> "num", n |-> n]

Chars_user == <<"u", "s", "e", "r">>
Chars_text == <<"t", "e", "x", "t">>
Chars_hi == <<"h", "i">>
Chars_hi_padded == <<" ", "h", "i", "\n">>
Chars_blank == <<" ", "\t">>
Chars_a == <<"a">>
Chars_usertext == <<"u", "s", "e", "r", "t", "e", "x", "t">>

KeyChars(key) == IF key = "user" THEN Chars_user ELSE Chars_text

\* A timestamp a client may put into its payload; no clock value reaches it.
ClientTimestamp == MaxTime + 1

\* The keys the validation looks for (the list literal of line 83).
RequiredKeys == {"user", "text"}

\* What json.loads makes of the inbound payloads the model lets a client
\* send: k = "invalid" is text that is not JSON, "num" a JSON number,
\* "str" a JSON string, "arr" a JSON array, "obj" a JSON object (o maps its
\* keys to their values).
Payloads ==
  { [k |-> "invalid"],
    [k |-> "num"],
    [k |-> "str", s |-> Chars_hi],
    [k |-> "str", s |-> Chars_usertext],
    [k |-> "arr", a |-> <<Str(Chars_user), Str(Chars_text)>>],
    [k |-> "obj", o |-> [text |-> Str(Chars_hi)]],
    [k |-> "obj", o |-> [user |-> Str(Chars_a)]],
    [k |-> "obj", o |-> [user |-> Str(Chars_a), text |-> Str(Chars_blank)]],
    [k |-> "obj", o |-> [user |-> Str(Chars_a), text |-> Num(5)]],
    [k |-> "obj", o |-> [user |-> Str(<< >>), text |-> Str(Chars_hi)]],
    [k |-> "obj", o |-> [user |-> Str(Chars_a), text |-> Str(Chars_hi_padded),
                         timestamp |-> Num(ClientTimestamp)]] }

\* ------------------------------------------------------------------------
\* str.strip(): drop leading and trailing whitespace.
\* ------------------------------------------------------------------------
Whitespace == {" ", "\t", "\n"}

RECURSIVE LStrip(_)
LStrip(s) ==
  IF s = << >> THEN << >>
  ELSE IF Head(s) \in Whitespace THEN LStrip(Tail(s)) ELSE s

RECURSIVE RStrip(_)
RStrip(s) ==
  IF s = << >> THEN << >>
  ELSE IF s[Len(s)] \in Whitespace THEN RStrip(SubSeq(s, 1, Len(s) - 1)) ELSE s

Strip(s) == RStrip(LStrip(s))

\* `sub in s` for two strings: substring test.
IsSubstring(sub, s) ==
  \E i \in 0..(Len(s) - Len(sub)) : SubSeq(s, i + 1, i + Len(sub)) = sub

\* `key in message` (line 83).  Only evaluated for containers; on a number
\* or null the expression raises TypeError (see Validate).
Contains(p, key) ==
  CASE p.k = "obj" -> key \in DOMAIN p.o
    [] p.k = "str" -> IsSubstring(KeyChars(key), p.s)
    [] p.k = "arr" -> \E i \in 1..Len(p.a) : p.a[i] = Str(KeyChars(key))
    [] OTHER -> FALSE

\* The outcome of lines 80-88 for one parsed payload:
\*   "JSONDecodeError"  json.loads failed; caught at line 88, loop continues
\*   "fault"            TypeError / AttributeError; not caught by line 88, so
\*                      it leaves the loop through line 96
\*   "drop"             the condition of line 83 is false
\*   "accept"           lines 84-86 run
ValidateKeysOnly(p) ==
  IF p.k = "invalid" THEN "JSONDecodeError"
  ELSE IF p.k = "num" THEN "fault"
  ELSE IF ~(\A key \in RequiredKeys : Contains(p, key)) THEN "drop"
  ELSE IF p.k # "obj" THEN "fault"
  ELSE IF p.o["text"].t # "str" THEN "fault"
  ELSE "accept"

Validate(p) ==
  IF p.k = "invalid" THEN "JSONDecodeError"
  ELSE IF p.k = "num" THEN "fault"
  ELSE IF ~(\A key \in RequiredKeys : Contains(p, key)) THEN "drop"
  ELSE IF p.k # "obj" THEN "fault"
  ELSE IF p.o["text"].t # "str" THEN "fault"
  ELSE IF Strip(p.o["text"].s) = << >> THEN "drop"
  ELSE "accept"

\* Lines 84-85: the dict with text stripped and timestamp set to the clock.
StampKeepClient(o, time) ==
  [key \in DOMAIN o \cup {"timestamp"} |->
     IF key = "text" THEN o[key]
     ELSE IF key = "timestamp"
          THEN (IF key \in DOMAIN o THEN o[key] ELSE Num(time))
     ELSE o[key]]

Stamp(o, time) ==
  [key \in DOMAIN o \cup {"timestamp"} |->
     IF key = "text" THEN Str(Strip(o[key].s))
     ELSE IF key = "timestamp" THEN Num(time)
     ELSE o[key]]

\* ------------------------------------------------------------------------
\* The history list and the connection set.
\* ------------------------------------------------------------------------
\* Lines 47-49: append, then drop the head if longer than MAX_HISTORY.
AppendNoTrim(hist, m) == Append(hist, m)

AppendTrimTwice(hist, m) ==
  LET a == Append(hist, m)
  IN IF Len(a) > MAX_HISTORY THEN Tail(Tail(a)) ELSE a

AppendTrim(hist, m) ==
  LET a == Append(hist, m)
  IN IF Len(a) > MAX_HISTORY THEN Tail(a) ELSE a

\* Lines 46-55: broadcast updates the history before it looks at the set.
HistoryIfRecipients(hist, conns, m) ==
  IF conns = << >> THEN hist ELSE AppendTrim(hist, m)

HistoryAfterBroadcast(hist, conns, m) == AppendTrim(hist, m)

\* The slice of line 49 rebinds CHAT_HISTORY to a new list object.
Rebinds(hist) == Len(hist) + 1 > MAX_HISTORY

\* CONNECTIONS is a Python set; the model keeps it as the sequence of its
\* members in iteration order.
Members(conns) == {conns[i] : i \in 1..Len(conns)}

\* set.add of a new member: it may land anywhere in the iteration order.
InsertAt(conns, i, h) ==
  SubSeq(conns, 1, i - 1) \o <<h>> \o SubSeq(conns, i, Len(conns))

\* Lines 38-39: remove if present; the others keep their relative order.
DiscardUnchecked(conns, h) ==
  IF conns = << >> THEN conns
  ELSE IF h \in {conns[i] : i \in 1..Len(conns)}
       THEN SelectSeq(conns, LAMBDA x : x # h)
       ELSE Tail(conns)

Discard(conns, h) == SelectSeq(conns, LAMBDA x : x # h)

RECURSIVE DiscardAll(_, _)
DiscardAll(conns, hs) ==
  IF hs = << >> THEN conns
  ELSE DiscardAll(Discard(conns, Head(hs)), Tail(hs))

\* Lines 63-67: pair the live set with the results and keep the failed.
RECURSIVE ZipFailed(_, _)
ZipFailed(conns, results) ==
  IF conns = << >> \/ results = << >> THEN << >>
  ELSE (IF Head(results) = "exc" THEN <<Head(conns)>> ELSE << >>)
       \o ZipFailed(Tail(conns), Tail(results))

\* ------------------------------------------------------------------------
\* State.
\* ------------------------------------------------------------------------
VARIABLES
  CONNECTIONS,   \* the connection set, as a sequence in iteration order
  CHAT_HISTORY,  \* the list the global name is bound to: a sequence of messages
  pc,            \* where each connection's handler coroutine stands
  conn,          \* the transport of each connection, as the peer left it
  iter,          \* the list iterator of the replay loop of register
  bc,            \* the broadcast each handler has in flight
  now,           \* the event loop's clock
  log,           \* history variable: every accepted message in append order, with
                 \* the payload it came from, the clock, the sender and the set
  received,      \* history variable: ids of the messages written to each client
  joined,        \* history variable: ids in CHAT_HISTORY when the client was added
  teardowns,     \* history variable: calls of unregister made by line 101
  last,          \* history variable: the inbound payload, the cleanup or the
                 \* teardown of the last step
  port,          \* the configured port (line 12)
  startup        \* where main stands: "starting", "aborted" (line 108),
                 \* "serving" (line 113) or "bind_failed" (lines 114-117)

vars == <<CONNECTIONS, CHAT_HISTORY, pc, conn, iter, bc, now, log, received,
          joined, teardowns, last, port, startup>>

server == <<port, startup>>

\* pc: "idle"    the client has not connected yet
\*     "replay"  suspended in the send of line 31, for element idx of the list
\*     "recv"    suspended in the async for of line 78
\*     "gather"  suspended in the gather of line 60
\*     "closed"  the handler coroutine has ended
\* conn: "open", "closed", or "hung": the peer has stopped reading and the
\*     transport no longer drains, so a send to it does not return

NoIter == [live |-> FALSE, list |-> << >>, idx |-> 0]
NoBroadcast == [id |-> 0, targets |-> << >>, results |-> << >>]
None == [op |-> "none"]

\* A message is the dict built by lines 80-85 (body); id stands for the
\* identity of that dict object.
Message(id, body) == [id |-> id, body |-> body]

Ids(hist) == [i \in 1..Len(hist) |-> hist[i].id]

\* The list object the replay loop of h iterates: the one CHAT_HISTORY is
\* bound to, until line 49 rebinds the name and leaves the iterator with
\* the old object.
IterList(h) == IF iter[h].live THEN CHAT_HISTORY ELSE iter[h].list

\* ---- initial states ----
\* A server that has just started.
InitFresh ==
  /\ CONNECTIONS = << >>
  /\ CHAT_HISTORY = << >>
  /\ pc = [h \in Handles |-> "idle"]
  /\ conn = [h \in Handles |-> "open"]
  /\ iter = [h \in Handles |-> NoIter]
  /\ bc = [h \in Handles |-> NoBroadcast]
  /\ now = 0
  /\ log = << >>
  /\ received = [h \in Handles |-> << >>]
  /\ joined = [h \in Handles |-> << >>]
  /\ teardowns = [h \in Handles |-> 0]
  /\ last = None
  /\ port = PORT
  /\ startup = "serving"

\* A server one message short of a full history: client 1 connected to the
\* empty server and has since had WarmLen messages accepted, each of which
\* was fanned out to it; then client 2 connected and its replay loop has
\* called send for all but the last of them.  Any further client has not
\* connected.
WarmLen == MAX_HISTORY - 1

WarmBody == [user |-> Str(Chars_a), text |-> Str(Chars_hi), timestamp |-> Num(0)]

WarmHistory == [i \in 1..WarmLen |-> Message(i, WarmBody)]

InitWarm ==
  /\ CONNECTIONS \in {<<1, 2>>, <<2, 1>>}
  /\ CHAT_HISTORY = WarmHistory
  /\ pc = [h \in Handles |-> IF h = 1 THEN "recv" ELSE IF h = 2 THEN "replay" ELSE "idle"]
  /\ conn = [h \in Handles |-> "open"]
  /\ iter = [h \in Handles |->
               IF h = 2 THEN [live |-> TRUE, list |-> << >>, idx |-> WarmLen - 1]
               ELSE NoIter]
  /\ bc = [h \in Handles |-> NoBroadcast]
  /\ now = 0
  /\ log = [i \in 1..WarmLen |->
              [msg |-> WarmHistory[i],
               raw |-> [user |-> Str(Chars_a), text |-> Str(Chars_hi)],
               at |-> 0, by |-> 1, reg |-> <<1>>]]
  /\ received = [h \in Handles |->
                   IF h = 1 THEN Ids(WarmHistory)
                   ELSE IF h = 2 THEN SubSeq(Ids(WarmHistory), 1, WarmLen - 1)
                   ELSE << >>]
  /\ joined = [h \in Handles |-> IF h = 2 THEN Ids(WarmHistory) ELSE << >>]
  /\ teardowns = [h \in Handles |-> 0]
  /\ last = None
  /\ port = PORT
  /\ startup = "serving"

Init == InitFresh \/ InitWarm

\* Accepted messages of this run (the bound MaxMsgs caps them).
Accepted == IF Len(log) >= WarmLen THEN Len(log) - WarmLen ELSE Len(log)

\* ------------------------------------------------------------------------
\* Actions.
\* ------------------------------------------------------------------------
\* handler is entered: line 74 calls register, which runs lines 24-31 up to
\* the first send of the replay loop, which writes the first history
\* message (or to the end of register when the history is empty, and then
\* on to the async for of line 78).
Connect(h) ==
  /\ startup = "serving"
  /\ pc[h] = "idle"
  /\ \E i \in 1..(Len(CONNECTIONS) + 1) :
       CONNECTIONS' = InsertAt(CONNECTIONS, i, h)
  /\ joined' = [joined EXCEPT ![h] = Ids(CHAT_HISTORY)]
  /\ IF CHAT_HISTORY = << >>
     THEN /\ pc' = [pc EXCEPT ![h] = "recv"]
          /\ UNCHANGED <<iter, received>>
     ELSE /\ pc' = [pc EXCEPT ![h] = "replay"]
          /\ iter' = [iter EXCEPT ![h] = [live |-> TRUE, list |-> << >>, idx |-> 1]]
          /\ received' = [received EXCEPT ![h] = Append(@, CHAT_HISTORY[1].id)]
  /\ last' = None
  /\ UNCHANGED <<CHAT_HISTORY, conn, bc, now, log, teardowns, server>>

\* The send of line 31 returns: the loop takes the next element of its list
\* and calls send for it, or ends, and then register returns and handler
\* goes on to line 78.
ReplaySent(h) ==
  /\ pc[h] = "replay"
  /\ conn[h] = "open"
  /\ IF iter[h].idx < Len(IterList(h))
     THEN /\ iter' = [iter EXCEPT ![h].idx = @ + 1]
          /\ received' = [received EXCEPT
                            ![h] = Append(@, IterList(h)[iter[h].idx + 1].id)]
          /\ pc' = pc
     ELSE /\ iter' = [iter EXCEPT ![h] = NoIter]
          /\ received' = received
          /\ pc' = [pc EXCEPT ![h] = "recv"]
  /\ last' = None
  /\ UNCHANGED <<CONNECTIONS, CHAT_HISTORY, conn, bc, now, log, joined, teardowns, server>>

\* The send of line 31 raises ConnectionClosed: lines 32-34 swallow it,
\* register returns and handler goes on to line 78.
ReplayConnectionClosed(h) ==
  /\ pc[h] = "replay"
  /\ conn[h] = "closed"
  /\ iter' = [iter EXCEPT ![h] = NoIter]
  /\ pc' = [pc EXCEPT ![h] = "recv"]
  /\ last' = None
  /\ UNCHANGED <<CONNECTIONS, CHAT_HISTORY, conn, bc, now, log, received, joined,
                 teardowns, server>>

\* The send of line 31 raises anything else: lines 32-34 do not catch it
\* and line 74 is outside the try of line 76, so the exception leaves
\* handler without running line 101.  The library closes the connection of
\* a handler that has ended.
ReplayFault(h) ==
  /\ pc[h] = "replay"
  /\ conn[h] = "open"
  /\ iter' = [iter EXCEPT ![h] = NoIter]
  /\ pc' = [pc EXCEPT ![h] = "closed"]
  /\ conn' = [conn EXCEPT ![h] = "closed"]
  /\ last' = None
  /\ UNCHANGED <<CONNECTIONS, CHAT_HISTORY, bc, now, log, received, joined, teardowns, server>>

\* The iterators of running replay loops after an append of m: an iterator
\* on the list object that line 49 abandons keeps that object, which holds
\* the appended m as its last element.
IterAfterAppend(m) ==
  [h \in Handles |->
     IF iter[h].live /\ Rebinds(CHAT_HISTORY)
     THEN [live |-> FALSE, list |-> Append(CHAT_HISTORY, m), idx |-> iter[h].idx]
     ELSE iter[h]]

\* Line 57: one send per member of the set, in iteration order.
SendTargetsButFirst(conns) == IF conns = << >> THEN conns ELSE Tail(conns)

SendTargetsTwice(conns) == conns \o conns

SendTargets(conns) == conns

\* The async for of line 78 yields payload p; lines 79-88 run, and for an
\* accepted message broadcast runs up to the gather of line 60.
Receive(h, p) ==
  /\ pc[h] = "recv"
  /\ conn[h] = "open"
  /\ LET outcome == Validate(p) IN
     /\ last' = [op |-> "recv", h |-> h, p |-> p, outcome |-> outcome]
     /\ CASE outcome \in {"JSONDecodeError", "drop"} ->
               UNCHANGED <<CONNECTIONS, CHAT_HISTORY, pc, conn, iter, bc, log,
                           teardowns>>
          [] outcome = "fault" ->
               \* line 96 catches it; line 101 runs; handler ends
               /\ CONNECTIONS' = Discard(CONNECTIONS, h)
               /\ pc' = [pc EXCEPT ![h] = "closed"]
               /\ conn' = [conn EXCEPT ![h] = "closed"]
               /\ teardowns' = [teardowns EXCEPT ![h] = @ + 1]
               /\ UNCHANGED <<CHAT_HISTORY, iter, bc, log>>
          [] outcome = "accept" ->
               /\ Accepted < MaxMsgs
               /\ LET m == Message(Len(log) + 1, Stamp(p.o, now)) IN
                  /\ CHAT_HISTORY' = HistoryAfterBroadcast(CHAT_HISTORY, CONNECTIONS, m)
                  /\ iter' = IterAfterAppend(m)
                  /\ log' = Append(log, [msg |-> m, raw |-> p.o, at |-> now,
                                         by |-> h, reg |-> CONNECTIONS])
                  /\ IF CONNECTIONS = << >>
                     THEN UNCHANGED <<pc, bc>>
                     ELSE /\ pc' = [pc EXCEPT ![h] = "gather"]
                          /\ bc' = [bc EXCEPT ![h] =
                                      [id |-> m.id,
                                       targets |-> SendTargets(CONNECTIONS),
                                       results |->
                                         [i \in 1..Len(SendTargets(CONNECTIONS))
                                            |-> "pending"]]]
               /\ UNCHANGED <<CONNECTIONS, conn, teardowns>>
  /\ UNCHANGED <<now, received, joined, server>>

\* Line 60: gather runs every send as a task of its own, so a send can run
\* whatever the state of the other sends of the broadcast b.
SendReadyInTurn(b, i) == \A j \in 1..(i - 1) : b.results[j] # "pending"

SendReady(b, i) == TRUE

\* One of the send tasks of a gather runs to its end: the message is
\* written to the target, or the send raises because the target's
\* connection is closed.  The send to a hung target does not return.
SendTask(h, i) ==
  /\ pc[h] = "gather"
  /\ i \in 1..Len(bc[h].targets)
  /\ bc[h].results[i] = "pending"
  /\ SendReady(bc[h], i)
  /\ conn[bc[h].targets[i]] # "hung"
  /\ LET t == bc[h].targets[i] IN
     IF conn[t] = "open"
     THEN /\ received' = [received EXCEPT ![t] = Append(@, bc[h].id)]
          /\ bc' = [bc EXCEPT ![h].results[i] = "ok"]
     ELSE /\ received' = received
          /\ bc' = [bc EXCEPT ![h].results[i] = "exc"]
  /\ last' = None
  /\ UNCHANGED <<CONNECTIONS, CHAT_HISTORY, pc, conn, iter, now, log, joined, teardowns, server>>

\* gather has every result: lines 63-70 run and broadcast returns to the
\* loop of line 78.
Cleanup(h) ==
  /\ pc[h] = "gather"
  /\ \A i \in 1..Len(bc[h].results) : bc[h].results[i] # "pending"
  /\ LET disconnected_clients == ZipFailed(CONNECTIONS, bc[h].results) IN
     /\ CONNECTIONS' = DiscardAll(CONNECTIONS, disconnected_clients)
     /\ last' = [op |-> "cleanup", h |-> h, id |-> bc[h].id,
                 targets |-> bc[h].targets, results |-> bc[h].results,
                 removed |-> Members(CONNECTIONS) \ Members(CONNECTIONS')]
  /\ pc' = [pc EXCEPT ![h] = "recv"]
  /\ bc' = [bc EXCEPT ![h] = NoBroadcast]
  /\ UNCHANGED <<CHAT_HISTORY, conn, iter, now, log, received, joined, teardowns, server>>

\* The peer closes its connection, or the connection is lost.
PeerClose(h) ==
  /\ pc[h] \in {"replay", "recv", "gather"}
  /\ conn[h] # "closed"
  /\ conn' = [conn EXCEPT ![h] = "closed"]
  /\ last' = None
  /\ UNCHANGED <<CONNECTIONS, CHAT_HISTORY, pc, iter, bc, now, log, received, joined,
                 teardowns, server>>

\* The async for of line 78 ends (end of stream after a close frame,
\* ConnectionClosedOK of line 92) or raises ConnectionClosedError (line 94);
\* the paths only differ in what they print, and line 101 runs.
Teardown(h) ==
  /\ pc[h] = "recv"
  /\ conn[h] = "closed"
  /\ CONNECTIONS' = Discard(CONNECTIONS, h)
  /\ pc' = [pc EXCEPT ![h] = "closed"]
  /\ teardowns' = [teardowns EXCEPT ![h] = @ + 1]
  /\ last' = [op |-> "teardown", h |-> h, present |-> h \in Members(CONNECTIONS)]
  /\ UNCHANGED <<CHAT_HISTORY, conn, iter, bc, now, log, received, joined, server>>

\* The clock of line 85 advances.
TickWallClock ==
  /\ now' \in (0..MaxTime) \ {now}
  /\ last' = None
  /\ UNCHANGED <<CONNECTIONS, CHAT_HISTORY, pc, conn, iter, bc, log, received, joined,
                 teardowns, server>>

Tick ==
  /\ now < MaxTime
  /\ now' = now + 1
  /\ last' = None
  /\ UNCHANGED <<CONNECTIONS, CHAT_HISTORY, pc, conn, iter, bc, log, received, joined,
                 teardowns, server>>

\* The peer stops reading: from now on a send to it does not return.
PeerHang(h) ==
  /\ pc[h] \in {"replay", "recv", "gather"}
  /\ conn[h] = "open"
  /\ conn' = [conn EXCEPT ![h] = "hung"]
  /\ last' = None
  /\ UNCHANGED <<CONNECTIONS, CHAT_HISTORY, pc, iter, bc, now, log, received, joined,
                 teardowns, server>>

\* Line 106: the ports main refuses.
PortRefused(n) == n <= 0 \/ n >= PortLimit

\* main, lines 103-117: refuse the port, or serve; the bind may fail.
Main ==
  /\ startup = "starting"
  /\ IF PortRefused(port)
     THEN startup' = "aborted"
     ELSE startup' \in {"serving", "bind_failed"}
  /\ UNCHANGED <<CONNECTIONS, CHAT_HISTORY, pc, conn, iter, bc, now, log, received,
                 joined, teardowns, last, port>>

Next ==
  \/ \E h \in Handles : Connect(h)
  \/ \E h \in Handles : ReplaySent(h)
  \/ \E h \in Handles : ReplayConnectionClosed(h)
  \/ \E h \in Handles : ReplayFault(h)
  \/ \E h \in Handles : \E p \in Payloads : Receive(h, p)
  \/ \E h \in Handles : \E i \in 1..NumClients : SendTask(h, i)
  \/ \E h \in Handles : Cleanup(h)
  \/ \E h \in Handles : PeerClose(h)
  \/ \E h \in Handles : Teardown(h)
  \/ Tick

Spec == Init /\ [][Next]_vars

\* ---- startup: main with the port drawn from around the limits ----
PortInputs ==
  ((0 - PortSpan)..PortSpan) \cup {PORT}
    \cup ((PortLimit - PortSpan)..(PortLimit + PortSpan))

InitPort ==
  /\ CONNECTIONS = << >>
  /\ CHAT_HISTORY = << >>
  /\ pc = [h \in Handles |-> "idle"]
  /\ conn = [h \in Handles |-> "open"]
  /\ iter = [h \in Handles |-> NoIter]
  /\ bc = [h \in Handles |-> NoBroadcast]
  /\ now = 0
  /\ log = << >>
  /\ received = [h \in Handles |-> << >>]
  /\ joined = [h \in Handles |-> << >>]
  /\ teardowns = [h \in Handles |-> 0]
  /\ last = None
  /\ port \in PortInputs
  /\ startup = "starting"

NextPort == Main

SpecPort == InitPort /\ [][NextPort]_vars

\* ---- the server with peers that may hang, under the event loop's
\* fairness: a task that can run does run (the sends of a gather that can
\* return, and the resumption of broadcast once gather has every result).
\* Clients are not obliged to connect, send, hang or close.
LivePayloads ==
  { [k |-> "obj", o |-> [user |-> Str(Chars_a), text |-> Str(Chars_blank)]],
    [k |-> "obj", o |-> [user |-> Str(Chars_a), text |-> Str(Chars_hi_padded),
                         timestamp |-> Num(ClientTimestamp)]] }

NextLive ==
  \/ \E h \in Handles : Connect(h)
  \/ \E h \in Handles : ReplaySent(h)
  \/ \E h \in Handles : ReplayConnectionClosed(h)
  \/ \E h \in Handles : \E p \in LivePayloads : Receive(h, p)
  \/ \E h \in Handles : \E i \in 1..NumClients : SendTask(h, i)
  \/ \E h \in Handles : Cleanup(h)
  \/ \E h \in Handles : PeerHang(h)
  \/ \E h \in Handles : PeerClose(h)
  \/ \E h \in Handles : Teardown(h)

Fairness ==
  /\ \A h \in Handles : \A i \in 1..NumClients : WF_vars(SendTask(h, i))
  /\ \A h \in Handles : WF_vars(Cleanup(h))

SpecLive == InitFresh /\ [][NextLive]_vars /\ Fairness

\* ------------------------------------------------------------------------
\* Properties.
\* ------------------------------------------------------------------------
Range(f) == {f[i] : i \in DOMAIN f}

IsPrefix(a, b) == Len(a) <= Len(b) /\ SubSeq(b, 1, Len(a)) = a

Min(a, b) == IF a < b THEN a ELSE b

LogMessages == [i \in 1..Len(log) |-> log[i].msg]

\* The most recent min(N, MAX_HISTORY) elements of a sequence of N.
Window(l) == SubSeq(l, Len(l) - Min(Len(l), MAX_HISTORY) + 1, Len(l))

\* C1: after N accepted broadcasts the history has length min(N, MAX_HISTORY),
\* never more than MAX_HISTORY, and is the most recent min(N, MAX_HISTORY)
\* accepted messages in append order (eviction is oldest first).
C1_HistoryIsWindow ==
  /\ Len(CHAT_HISTORY) = Min(Len(log), MAX_HISTORY)
  /\ Len(CHAT_HISTORY) <= MAX_HISTORY
  /\ CHAT_HISTORY = Window(LogMessages)

\* More than MAX_HISTORY messages have been accepted: the oldest is evicted.
C1_Witness ==
  /\ Len(log) > MAX_HISTORY
  /\ Len(CHAT_HISTORY) = MAX_HISTORY
  /\ CHAT_HISTORY[1].id = Len(log) - MAX_HISTORY + 1

\* C2: what a client has been sent starts with the history as it was when
\* the client was added, in order: no other message comes before the replay
\* is complete.
C2_ReplayBeforeLive ==
  \A h \in Handles :
    IsPrefix(received[h], joined[h]) \/ IsPrefix(joined[h], received[h])

\* C3: when a broadcast has finished, every recipient whose send failed is
\* absent from the set and every other recipient has been sent the message.
C3_FailedRecipientsRemoved ==
  last.op = "cleanup" =>
    \A i \in 1..Len(last.targets) :
      /\ last.results[i] = "exc" => last.targets[i] \notin Members(CONNECTIONS)
      /\ last.results[i] = "ok" => last.id \in Range(received[last.targets[i]])

\* C4: a broadcast never removes a recipient whose send succeeded, and when
\* all R sends succeed, R clients have been sent the message.
C4_HealthyRecipientsKept ==
  last.op = "cleanup" =>
    /\ \A i \in 1..Len(last.targets) :
         last.results[i] = "ok" => last.targets[i] \notin last.removed
    /\ (\A i \in 1..Len(last.targets) : last.results[i] = "ok") =>
         Cardinality({t \in Handles : last.id \in Range(received[t])})
           >= Len(last.targets)

\* The payloads C5 calls malformed: unparseable, not an object, lacking
\* user or text, text not a string, text blank.
Malformed(p) ==
  \/ p.k # "obj"
  \/ ~(RequiredKeys \subseteq DOMAIN p.o)
  \/ p.o["text"].t # "str"
  \/ Strip(p.o["text"].s) = << >>

\* C5: after a malformed payload the session is still in its receive loop
\* with its connection open, and it has not unregistered itself.
C5_MalformedKeepsSession ==
  (last.op = "recv" /\ Malformed(last.p)) =>
    /\ pc[last.h] = "recv"
    /\ conn[last.h] = "open"
    /\ teardowns[last.h] = 0

\* C6: a handler that has ended has called unregister exactly once from its
\* teardown, and its handle is not in the set.
C6_ClosedIsUnregistered ==
  \A h \in Handles :
    pc[h] = "closed" => teardowns[h] = 1 /\ h \notin Members(CONNECTIONS)

\* The payloads of C7: an object whose text is missing or blank after strip.
TextMissingOrBlank(p) ==
  /\ p.k = "obj"
  /\ \/ "text" \notin DOMAIN p.o
     \/ p.o["text"].t = "str" /\ Strip(p.o["text"].s) = << >>

\* C7: a step that receives a message whose text is missing or blank changes
\* neither the history nor the set, sends nothing and starts no broadcast.
C7_BlankTextNoEffect ==
  [][(last'.op = "recv" /\ TextMissingOrBlank(last'.p)) =>
       UNCHANGED <<CONNECTIONS, CHAT_HISTORY, received, log, bc, pc, conn>>]_vars

\* A blank text has been received by a registered session while the history
\* is not empty, and was dropped.
C7_Witness ==
  /\ last.op = "recv"
  /\ TextMissingOrBlank(last.p)
  /\ "text" \in DOMAIN last.p.o
  /\ last.outcome = "drop"
  /\ last.h \in Members(CONNECTIONS)
  /\ CHAT_HISTORY # << >>

\* C8: every accepted message has a user that is a non-empty string.
C8_UserNonEmpty ==
  \A i \in 1..Len(log) :
    /\ log[i].msg.body["user"].t = "str"
    /\ log[i].msg.body["user"].s # << >>

\* The text of m is a non-empty string in stripped form and its timestamp
\* is the clock value at.
WellFormed(m, at) ==
  /\ m.body["text"].t = "str"
  /\ m.body["text"].s # << >>
  /\ Strip(m.body["text"].s) = m.body["text"].s
  /\ m.body["timestamp"] = Num(at)

\* C9: every message in the history and every message sent to a client has
\* its text stripped and non-empty and carries the clock value of the moment
\* it was accepted as its timestamp.
C9_StoredTrimmedAndStamped ==
  /\ \A i \in 1..Len(CHAT_HISTORY) :
       LET m == CHAT_HISTORY[i] IN
         /\ m.id \in 1..Len(log)
         /\ log[m.id].msg = m
         /\ WellFormed(m, log[m.id].at)
  /\ \A h \in Handles : \A j \in 1..Len(received[h]) :
       /\ received[h][j] \in 1..Len(log)
       /\ WellFormed(log[received[h][j]].msg, log[received[h][j]].at)

\* A message whose payload had padded text and a timestamp of the client's
\* is in the history and has been sent to a client.
C9_Witness ==
  \E i \in 1..Len(log) :
    /\ "timestamp" \in DOMAIN log[i].raw
    /\ log[i].raw["timestamp"] = Num(ClientTimestamp)
    /\ Strip(log[i].raw["text"].s) # log[i].raw["text"].s
    /\ \E j \in 1..Len(CHAT_HISTORY) : CHAT_HISTORY[j].id = i
    /\ \E h \in Handles : i \in Range(received[h])

\* C10: the history is what the appends in log order produce one after the
\* other: the ids in it are consecutive and end with the latest accepted
\* one, nothing is missing unless more than MAX_HISTORY were accepted, and
\* then exactly MAX_HISTORY are left; and the recipients of every broadcast
\* in flight are the set as it was when its message was appended.
C10_SerializedHistory ==
  /\ \A i \in 1..Len(CHAT_HISTORY) :
       CHAT_HISTORY[i].id = Len(log) - Len(CHAT_HISTORY) + i
  /\ Len(log) <= MAX_HISTORY => Len(CHAT_HISTORY) = Len(log)
  /\ Len(log) > MAX_HISTORY => Len(CHAT_HISTORY) = MAX_HISTORY
  /\ \A h \in Handles :
       pc[h] = "gather" =>
         /\ bc[h].id \in 1..Len(log)
         /\ log[bc[h].id].by = h
         /\ bc[h].targets = log[bc[h].id].reg

\* Two broadcasts are in flight at once and the history has evicted.
C10_Witness ==
  /\ \E g, h \in Handles : g # h /\ pc[g] = "gather" /\ pc[h] = "gather"
  /\ Len(log) > MAX_HISTORY

\* C11: in every state the set can be in, and for every handle, a second
\* unregister changes nothing after the first, unregister of an absent
\* handle changes nothing, and unregister removes that handle only, leaving
\* the others in their order.
C11_UnregisterIdempotent ==
  \A h \in Handles :
    LET once == Discard(CONNECTIONS, h) IN
      /\ Discard(once, h) = once
      /\ h \notin Members(CONNECTIONS) => once = CONNECTIONS
      /\ Members(once) = Members(CONNECTIONS) \ {h}
      /\ \A g \in Handles \ {h} : Discard(once, g) = Discard(Discard(CONNECTIONS, g), h)

\* The teardown of a session has called unregister for a handle that a
\* broadcast's cleanup had removed before, while other handles are present.
C11_Witness ==
  /\ last.op = "teardown"
  /\ ~last.present
  /\ CONNECTIONS # << >>

\* The broadcast of h has a send to t that has not produced its outcome.
PendingTo(h, t) ==
  /\ pc[h] = "gather"
  /\ \E i \in 1..Len(bc[h].targets) :
       bc[h].targets[i] = t /\ bc[h].results[i] = "pending"

\* C12: whenever a broadcast has a send pending to a recipient whose
\* connection is open, that recipient is eventually sent the message (unless
\* its own connection hangs or closes first), whatever becomes of the sends
\* to the other recipients of the broadcast.
C12_HealthyRecipientsServed ==
  \A h \in Handles : \A t \in Handles : \A id \in 1..MaxMsgs :
    (PendingTo(h, t) /\ bc[h].id = id /\ conn[t] = "open")
      ~> (id \in Range(received[t]) \/ conn[t] # "open")

\* A recipient later in the order has been sent the message while the send
\* to a hung recipient earlier in the order is still pending.
C12_Witness ==
  \E h \in Handles :
    /\ pc[h] = "gather"
    /\ \E i, j \in 1..Len(bc[h].targets) :
         /\ i < j
         /\ conn[bc[h].targets[i]] = "hung"
         /\ bc[h].results[i] = "pending"
         /\ bc[h].results[j] = "ok"

\* C13: a hung peer blocks only its own send: a session whose own connection
\* is open and which is inside a broadcast eventually returns to reading its
\* client's next message (so that a second valid message it is sent can be
\* appended and fanned out), unless its own connection hangs or closes.
C13_SessionsKeepReading ==
  \A h \in Handles :
    (pc[h] = "gather" /\ conn[h] = "open")
      ~> (pc[h] = "recv" \/ conn[h] # "open")

\* C14: once main has decided, startup was aborted exactly for the ports
\* outside the legal range 1..65535; every port within the range got past
\* the validation (to serving, or to the attempt to bind).
C14_PortValidation ==
  startup # "starting" =>
    ((startup = "aborted") <=> (port \notin 1..PortLimit))

\* A step of the broadcast of h: one of its sends gets its outcome, or the
\* broadcast resumes after the gather.
BroadcastStep(h) ==
  /\ pc[h] = "gather"
  /\ (bc'[h] # bc[h] \/ pc'[h] # pc[h])

\* C15: a broadcast attempts delivery to exactly the handles, in their
\* order, that were registered when its message was appended, whatever is
\* registered or removed meanwhile; its steps send only to those handles and
\* leave the registry alone as long as one of its sends has no outcome.
C15_SnapshotFanOut ==
  /\ [](\A h \in Handles :
          pc[h] = "gather" =>
            /\ bc[h].targets = log[bc[h].id].reg
            /\ DOMAIN bc[h].results = DOMAIN bc[h].targets)
  /\ [](last.op = "cleanup" =>
          /\ last.targets = log[last.id].reg
          /\ \A i \in DOMAIN last.results : last.results[i] # "pending")
  /\ [][\A h \in Handles :
          BroadcastStep(h) =>
            /\ pc'[h] = "gather" => bc'[h].targets = bc[h].targets
            /\ \A t \in Handles :
                 received'[t] # received[t] => t \in Members(bc[h].targets)
            /\ (\E i \in DOMAIN bc[h].results : bc[h].results[i] = "pending")
                 => CONNECTIONS' = CONNECTIONS]_vars

\* A broadcast has resumed after its gather and has removed a handle, and
\* a handle that was not in its snapshot had been registered meanwhile.
C15_Witness ==
  /\ last.op = "cleanup"
  /\ last.removed # {}
  /\ (Members(CONNECTIONS) \cup last.removed) \ Members(last.targets) # {}

\* C16: right after a message is accepted it is the last element of the
\* history, also when no handle was registered at that moment; in that case
\* the session is back at reading with no fan-out in progress, nobody has
\* been sent the message, and the registry is still empty.
C16_AlwaysAppends ==
  (last.op = "recv" /\ last.outcome = "accept") =>
    LET id == Len(log) IN
      /\ CHAT_HISTORY # << >>
      /\ CHAT_HISTORY[Len(CHAT_HISTORY)] = log[id].msg
      /\ log[id].msg.id = id
      /\ log[id].by = last.h
      /\ log[id].reg = << >> =>
           /\ pc[last.h] = "recv"
           /\ bc[last.h] = NoBroadcast
           /\ CONNECTIONS = << >>
           /\ \A t \in Handles : id \notin Range(received[t])

\* A message has just been accepted while no handle was registered.
C16_Witness ==
  /\ last.op = "recv"
  /\ last.outcome = "accept"
  /\ log[Len(log)].reg = << >>

TimestampAt(i) == CHAT_HISTORY[i].body["timestamp"].n

\* C17: in the history, a message at an earlier position never has a
\* greater timestamp than a message at a later position.
C17_TimestampsMonotone ==
  \A i, j \in 1..Len(CHAT_HISTORY) :
    i < j => TimestampAt(i) <= TimestampAt(j)

\* The history holds two messages with different timestamps, stamped by two
\* different sessions, the earlier of which is still in its fan-out.
C17_Witness ==
  \E i, j \in 1..Len(CHAT_HISTORY) :
    /\ i < j
    /\ TimestampAt(i) < TimestampAt(j)
    /\ log[CHAT_HISTORY[i].id].by # log[CHAT_HISTORY[j].id].by
    /\ pc[log[CHAT_HISTORY[i].id].by] = "gather"
    /\ bc[log[CHAT_HISTORY[i].id].by].id = CHAT_HISTORY[i].id

\* C18: at-most-once delivery: over a session, replay and fan-out together,
\* no client is sent the same message twice.
C18_AtMostOnce ==
  \A h \in Handles :
    \A i, j \in DOMAIN received[h] :
      i # j => received[h][i] # received[h][j]

\* The messages accepted after h registered: joined[h] holds the ids that
\* were in the history at that moment, and ids grow with acceptance.
AcceptedAfterJoin(h) ==
  {id \in 1..Len(log) : \A k \in Range(joined[h]) : id > k}

\* The fan-out of message id is over.
FanOutOver(id) ==
  \A g \in Handles : ~(pc[g] = "gather" /\ bc[g].id = id)

\* C19: no gap on join: a client whose connection is open (none of its sends
\* has failed) and whose replay is over has been sent every message that
\* was in the history when it registered and every message accepted since
\* whose fan-out is over.
C19_NoGapOnJoin ==
  \A h \in Handles :
    (pc[h] \in {"recv", "gather"} /\ conn[h] = "open") =>
      /\ Range(joined[h]) \subseteq Range(received[h])
      /\ \A id \in AcceptedAfterJoin(h) :
           FanOutOver(id) => id \in Range(received[h])

\* How many times h has been sent message id.
TimesSent(h, id) ==
  Cardinality({k \in DOMAIN received[h] : received[h][k] = id})

\* The positions of h among the recipients of a fan-out.
PositionsOf(h, targets) == {i \in DOMAIN targets : targets[i] = h}

\* What C20 requires of the fan-out of message id by session h, with its
\* recipients and their results so far: h is a recipient exactly once; once
\* that send has succeeded h has been sent the message exactly once, before
\* that not at all; and the send fails only if h's connection is closed.
SenderServed(h, id, targets, results) ==
  h \in Members(log[id].reg) =>
    /\ Cardinality(PositionsOf(h, targets)) = 1
    /\ \A i \in PositionsOf(h, targets) :
         /\ TimesSent(h, id) = (IF results[i] = "ok" THEN 1 ELSE 0)
         /\ results[i] = "exc" => conn[h] = "closed"

\* C20: the sender is a recipient of its own message: during the fan-out
\* and when the broadcast resumes after it, a sender that was registered
\* when its message was accepted is sent the message back exactly once.
C20_SenderEchoedOnce ==
  /\ \A h \in Handles :
       pc[h] = "gather" => SenderServed(h, bc[h].id, bc[h].targets, bc[h].results)
  /\ last.op = "cleanup" =>
       SenderServed(last.h, last.id, last.targets, last.results)

\* A broadcast with more than one recipient has resumed, and the send to
\* its own sender had succeeded.
C20_Witness ==
  /\ last.op = "cleanup"
  /\ Len(last.targets) > 1
  /\ \E i \in DOMAIN last.targets :
       last.targets[i] = last.h /\ last.results[i] = "ok"

====
